---- MODULE Spec2Model ----
(***************************************************************************)
(* Model of spreadsheet2markdown.py: the "Generate Markdown Files" handler *)
(* that turns the rows of an uploaded spreadsheet into markdown documents  *)
(* with YAML frontmatter, previews the first one, packs them into a ZIP    *)
(* archive and lists the generated paths.                                  *)
(*                                                                         *)
(* Text is modelled as a sequence of one-character strings, so that        *)
(* lower(), replace(), strip(), os.path.join() and os.path.relpath() are   *)
(* computed character by character as Python computes them (POSIX paths).  *)
(***************************************************************************)
EXTENDS Integers, Sequences, FiniteSets, TLC

\* Largest number of rows of the uploaded spreadsheet.
MaxRows == 2

----------------------------------------------------------------------------
\* Text helpers (Python str methods)

UpperCase ==
    << "A","B","C","D","E","F","G","H","I","J","K","L","M",
       "N","O","P","Q","R","S","T","U","V","W","X","Y","Z" >>

LowerCase ==
    << "a","b","c","d","e","f","g","h","i","j","k","l","m",
       "n","o","p","q","r","s","t","u","v","w","x","y","z" >>

Whitespace == {" ", "\n", "\t"}

Digits == << "0","1","2","3","4","5","6","7","8","9" >>

LowerChar(c) ==
    IF \E k \in 1..Len(UpperCase) : UpperCase[k] = c
    THEN LowerCase[CHOOSE k \in 1..Len(UpperCase) : UpperCase[k] = c]
    ELSE c

\* s.lower()
lower(s) == [k \in 1..Len(s) |-> LowerChar(s[k])]

\* s.replace(old, new) for one-character old and new
replace(s, old, new) == [k \in 1..Len(s) |-> IF s[k] = old THEN new ELSE s[k]]

\* s.strip(): drop leading and trailing whitespace
strip(s) ==
    LET keep == {k \in 1..Len(s) : s[k] \notin Whitespace}
        Min(S) == CHOOSE x \in S : \A y \in S : x <= y
        Max(S) == CHOOSE x \in S : \A y \in S : x >= y
    IN  IF keep = {} THEN << >> ELSE SubSeq(s, Min(keep), Max(keep))

RECURSIVE Decimal(_)
\* decimal digits of a natural number
Decimal(n) ==
    IF n < 10 THEN << Digits[n + 1] >>
    ELSE Decimal(n \div 10) \o << Digits[(n % 10) + 1] >>

RECURSIVE Concat(_)
\* concatenation of a sequence of texts
Concat(ss) == IF ss = << >> THEN << >> ELSE Head(ss) \o Concat(Tail(ss))

RECURSIVE JoinWith(_, _)
\* sep.join(ss)
JoinWith(sep, ss) ==
    IF ss = << >> THEN << >>
    ELSE IF Len(ss) = 1 THEN ss[1]
    ELSE ss[1] \o sep \o JoinWith(sep, Tail(ss))

RECURSIVE SplitOn(_, _)
\* s.split(c) for a one-character separator c
SplitOn(s, c) ==
    IF \A k \in 1..Len(s) : s[k] # c THEN << s >>
    ELSE LET p == CHOOSE k \in 1..Len(s) :
                     s[k] = c /\ \A j \in 1..(k - 1) : s[j] # c
         IN  << SubSeq(s, 1, p - 1) >> \o SplitOn(SubSeq(s, p + 1, Len(s)), c)

----------------------------------------------------------------------------
\* Cell values of the DataFrame: a string, a number, or NaN (missing)

StrVal(s) == [kind |-> "str", s |-> s, n |-> 0]
NumVal(n) == [kind |-> "num", s |-> << >>, n |-> n]
NaN       == [kind |-> "nan", s |-> << >>, n |-> 0]

\* pd.isna(v)
isna(v) == v.kind = "nan"

\* v has the str methods .replace and .lower; a number or NaN (a float) has not
HasStrMethods(v) == v.kind = "str"

\* str(v), also what an f-string inserts for {v}
str(v) ==
    CASE v.kind = "str" -> v.s
      [] v.kind = "num" -> Decimal(v.n)
      [] v.kind = "nan" -> << "n","a","n" >>

----------------------------------------------------------------------------
\* Path helpers (posixpath)

SEP == << "/" >>

\* os.path.join(a, b): one step of the join loop
PathJoin2(a, b) ==
    IF Len(b) > 0 /\ b[1] = "/" THEN b
    ELSE IF a = << >> \/ a[Len(a)] = "/" THEN a \o b
    ELSE a \o SEP \o b

\* os.path.join(a, b, c)
PathJoin3(a, b, c) == PathJoin2(PathJoin2(a, b), c)

RECURSIVE NormComps(_, _)
\* the component loop of os.path.normpath for an absolute path:
\* comps still to read, acc the components kept so far
NormComps(comps, acc) ==
    IF comps = << >> THEN acc
    ELSE LET c == Head(comps) IN
         IF c = << >> \/ c = << "." >> THEN NormComps(Tail(comps), acc)
         ELSE IF c = << ".", "." >>
              THEN NormComps(Tail(comps),
                             IF acc = << >> THEN acc ELSE SubSeq(acc, 1, Len(acc) - 1))
         ELSE NormComps(Tail(comps), Append(acc, c))

\* the working directory of the process
cwd == << "/", "w" >>

\* the components of os.path.abspath(p)
AbsComps(p) == NormComps(SplitOn(PathJoin2(cwd, p), "/"), << >>)

RECURSIVE CommonLen(_, _)
\* len(os.path.commonprefix([a, b])) on component lists
CommonLen(a, b) ==
    IF a = << >> \/ b = << >> \/ Head(a) # Head(b) THEN 0
    ELSE 1 + CommonLen(Tail(a), Tail(b))

\* os.path.relpath(path, start)
relpath(path, start) ==
    LET start_list == AbsComps(start)
        path_list  == AbsComps(path)
        common     == CommonLen(start_list, path_list)
        rel_list   == [k \in 1..(Len(start_list) - common) |-> << ".", "." >>]
                          \o SubSeq(path_list, common + 1, Len(path_list))
    IN  IF rel_list = << >> THEN << "." >> ELSE JoinWith(SEP, rel_list)

\* os.path.basename(p)
basename(p) == LET parts == SplitOn(p, "/") IN parts[Len(parts)]

----------------------------------------------------------------------------
\* The uploaded spreadsheet and the form

\* the spelling of each column header of the spreadsheet
ColumnText ==
    [ Title  |-> << "T","i","t","l","e" >>,
      Folder |-> << "F","o","l","d","e","r" >>,
      Author |-> << "A","u","t","h","o","r" >> ]

\* df.columns
Columns == DOMAIN ColumnText

\* cells of the Title column: two texts that normalise to the same file
\* name, a number, and an empty cell
TitleValues ==
    { StrVal(<< "A"," ","b" >>), StrVal(<< "a","_","b" >>), NumVal(7), NaN }

\* cells of the Folder column: a name, the current-directory name, a number,
\* and an empty cell
FolderValues ==
    { StrVal(<< "G" >>), StrVal(<< "." >>), NumVal(3), NaN }

\* cells of the Author column: a padded name, a two-line cell whose second
\* line is a rule, and an empty cell
AuthorValues ==
    { StrVal(<< " ","J","o" >>), StrVal(<< "x","\n","-","-","-" >>), NaN }

\* rows of the DataFrame: column name -> cell value
Rows == [Title : TitleValues, Folder : FolderValues, Author : AuthorValues]

\* the DataFrames pd.read_excel can return, up to MaxRows rows
DataFrames == UNION { [1..n -> Rows] : n \in 0..MaxRows }

\* the selections of the form: files in folders, two properties, labels and
\* a section
FoldersForm ==
    [ output_dir      |-> << "o","u","t" >>,
      filename_col    |-> "Title",
      folder_col      |-> "Folder",
      properties_cols |-> << "Author", "Folder" >>,
      list_properties |-> << >>,
      labels_cols     |-> << "Folder", "Author" >>,
      sections_cols   |-> << "Author" >> ]

\* the selections of the form: no folder column, one property, the list
\* property "products" and labels
FlatForm ==
    [ output_dir      |-> << "o","u","t" >>,
      filename_col    |-> "Title",
      folder_col      |-> "None",
      properties_cols |-> << "Title" >>,
      list_properties |-> << [ name |-> << "p","r","o","d","u","c","t","s" >>,
                               cols |-> << "Author", "Folder" >> ] >>,
      labels_cols     |-> << "Author", "Folder" >>,
      sections_cols   |-> << "Folder" >> ]

Forms == { FoldersForm, FlatForm }

VARIABLES
    df,              \* the DataFrame read from the uploaded file
    form,            \* the widgets' values
    pc,              \* position in the Generate handler
    i,               \* index of the row the loop is at
    filename,        \* loop local
    file_path,       \* loop local
    md_content,      \* loop local
    markdown_files,  \* dict path -> content, in insertion order
    file_paths,      \* list of every computed path
    made_dirs,       \* directories os.makedirs was called for
    preview,         \* what the preview shows (empty until shown)
    archive,         \* entries written to the ZIP, in order
    file_tree,       \* the relative paths listed at the end
    error            \* the uncaught exception, if any

vars == << df, form, pc, i, filename, file_path, md_content, markdown_files,
           file_paths, made_dirs, preview, archive, file_tree, error >>

output_dir      == form.output_dir
filename_col    == form.filename_col
folder_col      == form.folder_col
properties_cols == form.properties_cols
list_properties == form.list_properties
labels_cols     == form.labels_cols
sections_cols   == form.sections_cols

----------------------------------------------------------------------------
\* The body of the row loop

DELIM == << "-","-","-" >>
NL    == << "\n" >>

\* filename = f"{row[filename_col].replace(' ', '_').lower()}.md"
Filename(row) ==
    lower(replace(row[filename_col].s, " ", "_")) \o << ".","m","d" >>

\* the folder branch is taken
HasFolder(row) == folder_col # "None" /\ ~isna(row[folder_col])

\* folder_name = row[folder_col].replace(" ", "_").lower()
FolderName(row) == lower(replace(row[folder_col].s, " ", "_"))

\* file_path, for a row whose file name is fname
FilePath(row, fname) ==
    IF HasFolder(row)
    THEN PathJoin3(output_dir, FolderName(row), fname)
    ELSE PathJoin2(output_dir, fname)

RECURSIVE AddProperties(_, _, _)
\* the loop over properties_cols: md extended by one "key: value" line per
\* present cell
AddProperties(md, cols, row) ==
    IF cols = << >> THEN md
    ELSE LET col == Head(cols) IN
         AddProperties(
             IF col \in Columns /\ ~isna(row[col])
             THEN md \o lower(ColumnText[col]) \o << ":"," " >> \o str(row[col]) \o NL
             ELSE md,
             Tail(cols), row)

RECURSIVE ListValues(_, _)
\* values: str(cell).strip() of every present cell of prop_cols, in order
ListValues(cols, row) ==
    IF cols = << >> THEN << >>
    ELSE (IF ~isna(row[Head(cols)]) THEN << strip(str(row[Head(cols)])) >> ELSE << >>)
         \o ListValues(Tail(cols), row)

\* the "  - value" lines of one list property
ListItems(values) ==
    Concat([k \in 1..Len(values) |-> << " "," ","-"," " >> \o values[k] \o NL])

RECURSIVE AddListProperties(_, _, _)
\* the loop over list_properties
AddListProperties(md, props, row) ==
    IF props = << >> THEN md
    ELSE LET values == ListValues(Head(props).cols, row) IN
         AddListProperties(
             IF values # << >>
             THEN md \o Head(props).name \o << ":" >> \o NL \o ListItems(values)
             ELSE md,
             Tail(props), row)

RECURSIVE Labels(_, _)
\* labels: str(cell) of every present cell of labels_cols, in order
Labels(cols, row) ==
    IF cols = << >> THEN << >>
    ELSE (IF Head(cols) \in Columns /\ ~isna(row[Head(cols)])
          THEN << str(row[Head(cols)]) >> ELSE << >>)
         \o Labels(Tail(cols), row)

\* the labels line
AddLabels(md, row) ==
    LET labels == Labels(labels_cols, row) IN
    IF labels # << >>
    THEN md \o << "l","a","b","e","l","s",":"," ","[" >>
            \o JoinWith(<< ","," " >>, labels) \o << "]" >> \o NL
    ELSE md

RECURSIVE AddSections(_, _, _)
\* the loop over sections_cols
AddSections(md, cols, row) ==
    IF cols = << >> THEN md
    ELSE LET col == Head(cols) IN
         AddSections(
             IF col \in Columns /\ ~isna(row[col])
             THEN md \o << "#","#"," " >> \o ColumnText[col] \o NL \o NL
                     \o str(row[col]) \o NL \o NL
             ELSE md,
             Tail(cols), row)

\* md_content up to the closing delimiter and the blank line after it
Frontmatter(row) ==
    AddLabels(
        AddListProperties(
            AddProperties(DELIM \o NL, properties_cols, row),
            list_properties, row),
        row) \o DELIM \o NL \o NL

\* md_content of a row
MdContent(row) == AddSections(Frontmatter(row), sections_cols, row)

\* a dict assignment that keeps the value already stored under the key
DictSetKeepFirst(d, path, content) ==
    IF \E k \in 1..Len(d) : d[k].path = path
    THEN d
    ELSE Append(d, [path |-> path, content |-> content])

\* markdown_files[path] = content on an insertion-ordered dict
DictSet(d, path, content) ==
    IF \E k \in 1..Len(d) : d[k].path = path
    THEN [k \in 1..Len(d) |->
             IF d[k].path = path THEN [path |-> path, content |-> content]
             ELSE d[k]]
    ELSE Append(d, [path |-> path, content |-> content])

----------------------------------------------------------------------------
\* The handler, step by step

Init ==
    /\ df \in DataFrames
    /\ form \in Forms
    /\ pc = "form"
    /\ i = 0
    /\ filename = << >>
    /\ file_path = << >>
    /\ md_content = << >>
    /\ markdown_files = << >>
    /\ file_paths = << >>
    /\ made_dirs = {}
    /\ preview = << >>
    /\ archive = << >>
    /\ file_tree = << >>
    /\ error = "none"

\* st.button("Generate Markdown Files") pressed: the output directory is
\* made and the two collections start empty
PressGenerate ==
    /\ pc = "form"
    /\ pc' = "rows"
    /\ i' = 1
    /\ made_dirs' = made_dirs \cup {output_dir}
    /\ markdown_files' = << >>
    /\ file_paths' = << >>
    /\ UNCHANGED << df, form, filename, file_path, md_content, preview,
                    archive, file_tree, error >>

\* one iteration of the row loop that runs to its end
ProcessRow ==
    /\ pc = "rows"
    /\ i <= Len(df)
    /\ LET row == df[i] IN
       /\ HasStrMethods(row[filename_col])
       /\ HasFolder(row) => HasStrMethods(row[folder_col])
       /\ filename' = Filename(row)
       /\ file_path' = FilePath(row, Filename(row))
       /\ made_dirs' = IF HasFolder(row)
                       THEN made_dirs \cup {PathJoin2(output_dir, FolderName(row))}
                       ELSE made_dirs
       /\ file_paths' = Append(file_paths, FilePath(row, Filename(row)))
       /\ md_content' = MdContent(row)
       /\ markdown_files' =
              DictSet(markdown_files, FilePath(row, Filename(row)), MdContent(row))
    /\ i' = i + 1
    /\ UNCHANGED << df, form, pc, preview, archive, file_tree, error >>

\* the iteration stops at the file name: the cell is a number or NaN, which
\* has no .replace
FilenameRaises ==
    /\ pc = "rows"
    /\ i <= Len(df)
    /\ ~HasStrMethods(df[i][filename_col])
    /\ pc' = "aborted"
    /\ error' = "AttributeError"
    /\ UNCHANGED << df, form, i, filename, file_path, md_content, markdown_files,
                    file_paths, made_dirs, preview, archive, file_tree >>

\* the iteration stops at the folder name: the cell is a number
FolderRaises ==
    /\ pc = "rows"
    /\ i <= Len(df)
    /\ HasStrMethods(df[i][filename_col])
    /\ HasFolder(df[i])
    /\ ~HasStrMethods(df[i][folder_col])
    /\ filename' = Filename(df[i])
    /\ pc' = "aborted"
    /\ error' = "AttributeError"
    /\ UNCHANGED << df, form, i, file_path, md_content, markdown_files,
                    file_paths, made_dirs, preview, archive, file_tree >>

\* the loop is over and the first item of the dict is shown
ShowPreview ==
    /\ pc = "rows"
    /\ i > Len(df)
    /\ markdown_files # << >>
    /\ preview' = << [ name     |-> basename(markdown_files[1].path),
                       path     |-> markdown_files[1].path,
                       content  |-> markdown_files[1].content ] >>
    /\ pc' = "archive"
    /\ UNCHANGED << df, form, i, filename, file_path, md_content, markdown_files,
                    file_paths, made_dirs, archive, file_tree, error >>

\* the loop is over and the dict is empty: [0] of an empty list
PreviewRaises ==
    /\ pc = "rows"
    /\ i > Len(df)
    /\ markdown_files = << >>
    /\ pc' = "aborted"
    /\ error' = "IndexError"
    /\ UNCHANGED << df, form, i, filename, file_path, md_content, markdown_files,
                    file_paths, made_dirs, preview, archive, file_tree >>

\* zipf.writestr(rel_path, content): an entry is appended, whatever its name
ZipEntry(item) ==
    [ name |-> relpath(item.path, output_dir), content |-> item.content ]

\* the ZIP archive is written, one entry per item of the dict
CreateArchive ==
    /\ pc = "archive"
    /\ archive' = [k \in 1..Len(markdown_files) |-> ZipEntry(markdown_files[k])]
    /\ pc' = "listing"
    /\ UNCHANGED << df, form, i, filename, file_path, md_content, markdown_files,
                    file_paths, made_dirs, preview, file_tree, error >>

\* the generated files are listed, one relative path per computed path
ShowFileTree ==
    /\ pc = "listing"
    /\ file_tree' = [k \in 1..Len(file_paths) |-> relpath(file_paths[k], output_dir)]
    /\ pc' = "done"
    /\ UNCHANGED << df, form, i, filename, file_path, md_content, markdown_files,
                    file_paths, made_dirs, preview, archive, error >>

Next ==
    \/ PressGenerate
    \/ ProcessRow
    \/ FilenameRaises
    \/ FolderRaises
    \/ ShowPreview
    \/ PreviewRaises
    \/ CreateArchive
    \/ ShowFileTree

Spec == Init /\ [][Next]_vars

----------------------------------------------------------------------------
\* Properties

\* rows whose iteration ran to its end
Processed == Len(file_paths)

\* the row the loop entered last: the row it stopped at, or the last row done
LastEntered == IF pc = "aborted" /\ error = "AttributeError" THEN i ELSE i - 1

\* a value lowercased with spaces turned to underscores
Normalized(v) == lower(replace(str(v), " ", "_"))

\* the file name a present file-name cell stands for
SpecFilename(v) == Normalized(v) \o << ".","m","d" >>

\* the output path a row stands for
SpecPath(row) ==
    IF folder_col # "None" /\ ~isna(row[folder_col])
    THEN output_dir \o SEP \o Normalized(row[folder_col]) \o SEP
             \o SpecFilename(row[filename_col])
    ELSE output_dir \o SEP \o SpecFilename(row[filename_col])

\* the lines of a text that ends with a newline
Lines(text) ==
    LET parts == SplitOn(text, "\n") IN SubSeq(parts, 1, Len(parts) - 1)

Last(S) == CHOOSE x \in S : \A y \in S : x >= y

\* C1: every row whose file-name cell is present, a string or a number,
\* gets the file name made of the cell's value lowercased, with spaces
\* replaced by underscores, followed by ".md".
C1_FilenameOfEveryPresentValue ==
    (pc # "form" /\ LastEntered >= 1 /\ ~isna(df[LastEntered][filename_col]))
        => filename = SpecFilename(df[LastEntered][filename_col])

\* C2: the output path of a row (here: of every row whose file-name cell is
\* a string) is output root / normalized folder / file name when a folder
\* column is configured and the row's folder cell is present, and
\* output root / file name otherwise.
C2_PathOfEveryRow ==
    (pc # "form" /\ LastEntered >= 1
        /\ HasStrMethods(df[LastEntered][filename_col]))
        => file_path = SpecPath(df[LastEntered])

\* C3: last write wins. After any number of rows the mapping holds exactly
\* one entry per distinct computed path, and the content under a path is the
\* document of the last row, in input order, that computed that path. A
\* repeated path raises no error: a run is aborted only over an empty
\* dataset or at a row with a non-string file-name or folder cell.
C3_LastWriteWins ==
    pc # "form" =>
        /\ \A a, b \in 1..Len(markdown_files) :
               a # b => markdown_files[a].path # markdown_files[b].path
        /\ { markdown_files[a].path : a \in 1..Len(markdown_files) }
               = { file_paths[k] : k \in 1..Processed }
        /\ \A a \in 1..Len(markdown_files) :
               LET last == Last({ k \in 1..Processed :
                                      file_paths[k] = markdown_files[a].path })
               IN  markdown_files[a].content = MdContent(df[last])
        /\ pc = "aborted" =>
               \/ df = << >>
               \/ /\ i \in 1..Len(df)
                  /\ \/ ~HasStrMethods(df[i][filename_col])
                     \/ HasFolder(df[i]) /\ ~HasStrMethods(df[i][folder_col])

\* C3 witness: a finished run in which two rows with different documents
\* computed the same path and one entry survives.
C3_Witness ==
    /\ pc = "done"
    /\ Processed = 2
    /\ file_paths[1] = file_paths[2]
    /\ MdContent(df[1]) # MdContent(df[2])
    /\ Len(markdown_files) = 1

\* C4: archive round trip. Every key of the mapping is the name, made
\* relative to the output root, of exactly one archive entry, whose content
\* is the mapped text; distinct keys give distinct entry names; the archive
\* has no other entries.
C4_ArchiveRoundTrip ==
    pc \in {"listing", "done"} =>
        /\ Len(archive) = Len(markdown_files)
        /\ \A a \in 1..Len(markdown_files) :
               LET named == { e \in 1..Len(archive) :
                                 archive[e].name =
                                     relpath(markdown_files[a].path, output_dir) }
               IN  /\ Cardinality(named) = 1
                   /\ \A e \in named :
                          archive[e].content = markdown_files[a].content
        /\ \A a, b \in 1..Len(markdown_files) :
               a # b => relpath(markdown_files[a].path, output_dir)
                            # relpath(markdown_files[b].path, output_dir)

\* number of lines of a row's document up to and including the blank line
\* that follows the closing delimiter
HeadLines(row) == Len(Lines(Frontmatter(row)))

\* some property, list source or label cell of the row is present
SomeFrontmatterValue(row) ==
    \/ \E k \in 1..Len(properties_cols) : ~isna(row[properties_cols[k]])
    \/ \E p \in 1..Len(list_properties) :
           \E k \in 1..Len(list_properties[p].cols) :
               ~isna(row[list_properties[p].cols[k]])
    \/ \E k \in 1..Len(labels_cols) : ~isna(row[labels_cols[k]])

\* C5: the frontmatter of every document is wrapped by exactly two "---"
\* lines: the first line is "---", the closing "---" is followed by a blank
\* line, no line between the two is "---", and with no present value the
\* document starts with the two delimiters and the blank line.
C5_TwoDelimiterLines ==
    Processed >= 1 =>
        LET row   == df[Processed]
            lines == Lines(md_content)
            h     == HeadLines(row)
        IN  /\ lines[1] = DELIM
            /\ lines[h - 1] = DELIM
            /\ lines[h] = << >>
            /\ \A j \in 2..(h - 2) : lines[j] # DELIM
            /\ ~SomeFrontmatterValue(row) => h = 3

\* C6: a row whose file-name cell is missing does not stop generation.
C6_MissingFilenameDoesNotAbort ==
    ~(pc = "aborted" /\ i \in 1..Len(df) /\ isna(df[i][filename_col]))

\* C7: the archive holds exactly one entry per input row, each at that
\* row's relative path, and there are as many documents as rows.
C7_OneEntryPerRow ==
    pc = "done" =>
        /\ Len(archive) = Len(df)
        /\ Len(markdown_files) = Len(df)
        /\ \A k \in 1..Len(archive) :
               archive[k].name = relpath(file_paths[k], output_dir)

\* C8: a missing file-name cell is the only fatal condition: a run over a
\* dataset without one is never aborted by an uncaught error.
C8_OnlyMissingFilenameIsFatal ==
    (\A k \in 1..Len(df) : ~isna(df[k][filename_col])) => pc # "aborted"

RECURSIVE SpecPropertyLines(_, _)
\* one "key: value" line per present property cell, in selection order
SpecPropertyLines(cols, row) ==
    IF cols = << >> THEN << >>
    ELSE (IF isna(row[Head(cols)]) THEN << >>
          ELSE << lower(ColumnText[Head(cols)]) \o << ":"," " >>
                      \o str(row[Head(cols)]) >>)
         \o SpecPropertyLines(Tail(cols), row)

\* the present cells of cols, in order
Present(cols, row) ==
    SelectSeq([k \in 1..Len(cols) |-> row[cols[k]]], LAMBDA v : ~isna(v))

RECURSIVE SpecListLines(_, _)
\* per list property with a present value: "name:" and one item line per
\* present value, trimmed
SpecListLines(props, row) ==
    IF props = << >> THEN << >>
    ELSE LET vals == Present(Head(props).cols, row) IN
         (IF vals = << >> THEN << >>
          ELSE << Head(props).name \o << ":" >> >>
                   \o [k \in 1..Len(vals) |->
                          << " "," ","-"," " >> \o strip(str(vals[k]))])
         \o SpecListLines(Tail(props), row)

\* the labels line, when a label cell is present
SpecLabelLines(row) ==
    LET vals == Present(labels_cols, row) IN
    IF vals = << >> THEN << >>
    ELSE << << "l","a","b","e","l","s",":"," ","[" >>
               \o JoinWith(<< ","," " >>, [k \in 1..Len(vals) |-> str(vals[k])])
               \o << "]" >> >>

\* C9: the lines between the two frontmatter delimiters are exactly: one
\* "key: value" line per present property in selection order, then the list
\* property's "name:" line and item lines when it has a present value, then
\* one "labels: [...]" line when a label is present.
C9_FrontmatterLines ==
    Processed >= 1 =>
        LET row   == df[Processed]
            lines == Lines(md_content)
            h     == HeadLines(row)
        IN  SubSeq(lines, 2, h - 2)
                = SpecPropertyLines(properties_cols, row)
                      \o SpecListLines(list_properties, row)
                      \o SpecLabelLines(row)

\* C10: the preview is the first generated document: the path computed for
\* the first row and the document built from the first row.
C10_PreviewIsFirstRow ==
    pc \in {"archive", "listing", "done"} =>
        /\ preview[1].path = file_paths[1]
        /\ preview[1].content = MdContent(df[1])

====
